---- MODULE Spec2Model ----
(***************************************************************************)
(* A model of the RAG service of packages/rag_service:                     *)
(*   ingest.py  PDFIngestionPipeline.chunk_text, process_pdfs              *)
(*   server.py  ServerState, startup_event, load_*, retrieve               *)
(*                                                                         *)
(* A text is a sequence of one-character strings.  Offsets are Python's:   *)
(* 0-based, half-open, negative offsets counted from the end of the text.  *)
(***************************************************************************)
EXTENDS Integers, Sequences, FiniteSets, TLC

VARIABLES
    chunk_size,       \* self.chunk_size
    chunk_overlap,    \* self.chunk_overlap
    text,             \* chunk_text: the page text being chunked
    filename,         \* chunk_text: source file of the page
    page_num,         \* chunk_text: page number of the page
    start,            \* chunk_text: left edge of the current window
    end,              \* chunk_text: right edge of the current window
    chunk_id,         \* chunk_text: id the next chunk gets
    chunks,           \* chunk_text: the chunks emitted so far
    cpc,              \* chunk_text: position in the function
    taken,            \* history: the windows chunk_text has sliced so far
    data_dir,         \* the data directory: whether it exists, its *.pdf files
    pdf_files,        \* process_pdfs: the files still to process
    pdf_path,         \* process_pdfs: the file being processed
    pages,            \* process_pdfs: the pages of the current file still to chunk
    all_chunks,       \* process_pdfs: all_chunks
    chunk_id_offset,  \* process_pdfs: chunk_id_offset
    ppc,              \* process_pdfs: position in the function
    error,            \* process_pdfs: the exception it raised, or None
    disk,             \* the index directory the server loads
    srv,              \* server.py: the global ServerState
    spc,              \* server.py: position of startup_event
    calls,            \* history: what the last retrieve request made the handler call
    response,         \* server.py: the response of retrieve that is being sent, or Null
    request,          \* server.py retrieve: request, the request being answered, or Null
    hits,             \* server.py retrieve: distances, indices of index.search, or Null
    read_buffer,      \* server.py load_index_and_metadata: the metadata file as it was at
                      \* each raw read pickle.load has made of it, while it reads on
    mpc,              \* ingest.py main: position in the function
    embeddings,       \* ingest.py main: embeddings
    built_index,      \* ingest.py main: index, the FAISS index it built
    exit_code         \* ingest.py main: the value it returned, or None

chunkVars  == <<chunk_size, chunk_overlap, text, filename, page_num, start, end,
                chunk_id, chunks, cpc, taken>>
ingestVars == <<data_dir, pdf_files, pdf_path, pages, all_chunks, chunk_id_offset,
                ppc, error>>
serverVars == <<disk, srv, spc, calls, response, request, hits, read_buffer>>
mainVars   == <<mpc, embeddings, built_index, exit_code>>
vars       == <<chunkVars, ingestVars, serverVars, mainVars>>

(***************************************************************************)
(* Program constants.                                                      *)
(***************************************************************************)
None == "None"

MinChunk   == 50
Lookback   == 100
ExcerptLen == 100

(***************************************************************************)
(* Bounds of the model.                                                    *)
(***************************************************************************)
\* chunk_text stops being followed once it holds this many chunks
\* (only a run that never returns gets there).
MaxChunks == 6
\* the most marks (sentence terminators, blanks) placed in a generated text
MaxMarks  == 2
\* the most *.pdf files in the data directory
MaxFiles  == 2
\* the most pages in the data directory, over all its files
MaxPages  == 3
\* the most vectors in a stored index, and chunk records in a stored metadata
MaxVectors == 3

(***************************************************************************)
(* Python's str operations, as chunk_text uses them.                       *)
(***************************************************************************)
Max(a, b) == IF a >= b THEN a ELSE b
Min(a, b) == IF a <= b THEN a ELSE b

SetMax(S) == CHOOSE x \in S : \A y \in S : y <= x

Danda == "danda"
\* The characters str.strip() removes (those with str.isspace()): the ASCII
\* ones, and, named by their code points, the ones a TLA+ string cannot
\* spell.
Whitespace ==
    {" ", "\n", "\t", "\r", "\f", "x0b", "x1c", "x1d", "x1e", "x1f", "x85", "xa0",
     "u1680", "u2000", "u2001", "u2002", "u2003", "u2004", "u2005", "u2006",
     "u2007", "u2008", "u2009", "u200a", "u2028", "u2029", "u202f", "u205f",
     "u3000"}

\* A slice bound i of a string of length n, as Python clamps it.
ClampIndex(i, n) == IF i < 0 THEN Max(i + n, 0) ELSE Min(i, n)

\* text[lo:hi]
Slice(s, lo, hi) ==
    LET a == ClampIndex(lo, Len(s))
        b == ClampIndex(hi, Len(s))
    IN  IF a >= b THEN << >> ELSE SubSeq(s, a + 1, b)

\* text.rfind(sub, lo, hi): the highest offset i with lo <= i and
\* i + len(sub) <= hi at which sub occurs, or -1.
RFind(s, sub, lo, hi) ==
    LET a == ClampIndex(lo, Len(s))
        last == ClampIndex(hi, Len(s)) - Len(sub)
        Occurs(i) == \A j \in 1 .. Len(sub) : s[i + j] = sub[j]
    IN  IF \E i \in a .. last : Occurs(i)
        THEN CHOOSE i \in a .. last :
                Occurs(i) /\ \A k \in (i + 1) .. last : ~Occurs(k)
        ELSE -1

\* s.strip()
Strip(s) ==
    IF \A i \in 1 .. Len(s) : s[i] \in Whitespace
    THEN << >>
    ELSE LET \* the number of whitespace characters at the front, at the back
             lead  == CHOOSE k \in 0 .. Len(s) - 1 :
                         s[k + 1] \notin Whitespace
                         /\ \A j \in 1 .. k : s[j] \in Whitespace
             trail == CHOOSE k \in 0 .. Len(s) - 1 :
                         s[Len(s) - k] \notin Whitespace
                         /\ \A j \in 0 .. (k - 1) : s[Len(s) - j] \in Whitespace
         IN  SubSeq(s, lead + 1, Len(s) - trail)

(***************************************************************************)
(* DocumentChunk.                                                          *)
(***************************************************************************)
Ellipsis == <<".", ".", ".">>

Excerpt(t) == IF Len(t) > ExcerptLen THEN SubSeq(t, 1, ExcerptLen) \o Ellipsis ELSE t

\* DocumentChunk with the trimmed length recorded where char_end belongs.
DocumentChunkLength(t, fname, pnum, cid, cstart, cend) ==
    [text |-> Strip(t), filename |-> fname, page_num |-> pnum, chunk_id |-> cid,
     char_start |-> cstart, char_end |-> Len(Strip(t)), excerpt |-> Excerpt(Strip(t))]

DocumentChunk(t, fname, pnum, cid, cstart, cend) ==
    [text |-> Strip(t), filename |-> fname, page_num |-> pnum, chunk_id |-> cid,
     char_start |-> cstart, char_end |-> cend, excerpt |-> Excerpt(Strip(t))]

(***************************************************************************)
(* chunk_text.                                                             *)
(***************************************************************************)
SentenceEnds(s, search_start, e) ==
    { RFind(s, <<".", " ">>, search_start, e),
      RFind(s, <<Danda, " ">>, search_start, e),
      RFind(s, <<"?", " ">>, search_start, e),
      RFind(s, <<"!", " ">>, search_start, e),
      RFind(s, <<"\n", "\n">>, search_start, e) }

\* The sentence boundary looked for in the whole window, not in its last
\* 100 characters.
WindowEndAnySentence(s, st, size) ==
    LET e == st + size
    IN  IF e < Len(s)
        THEN LET sentence_end == SetMax(SentenceEnds(s, st, e))
             IN  IF sentence_end > st THEN sentence_end + 1 ELSE e
        ELSE e

\* The sentence boundary looked for after the window's right edge.
WindowEndForward(s, st, size) ==
    LET e == st + size
    IN  IF e < Len(s)
        THEN LET sentence_end == SetMax(SentenceEnds(s, e, e + Lookback))
             IN  IF sentence_end > st THEN sentence_end + 1 ELSE e
        ELSE e

\* The right edge of the window that starts at st (lines 173-189).
WindowEnd(s, st, size) ==
    LET e == st + size
    IN  IF e < Len(s)
        THEN LET search_start == Max(st, e - Lookback)
                 sentence_end == SetMax(SentenceEnds(s, search_start, e))
             IN  IF sentence_end > st THEN sentence_end + 1 ELSE e
        ELSE e

\* The trimmed slice of the window (line 191).
WindowText(s, st, e) == Strip(Slice(s, st, e))

\* The floor with >= where line 194 has >.
MeaningfulInclusive(t) == Len(t) >= MinChunk

\* "Only create chunk if it has meaningful content" (line 194).
Meaningful(t) == Len(t) > MinChunk

\* The next window starting where the last one ended, overlap forgotten.
NextStartNoOverlap(e, overlap) == e

\* "Move start position with overlap" (line 207).
NextStart(e, overlap) == e - overlap

\* The loop guard with the overlap forgotten.
BreakLoopAtTextEnd(st, n, overlap) == st >= n

\* The loop guard with the overlap subtracted twice.
BreakLoopEarly(st, n, overlap) == st >= n - overlap - overlap

\* "Prevent infinite loop" (line 210).
BreakLoop(st, n, overlap) == st >= n - overlap

\* chunk_text(text, filename, page_num, chunk_offset): lines 166-169.
EnterChunkText(t, fname, pnum, chunk_offset) ==
    /\ text' = t
    /\ filename' = fname
    /\ page_num' = pnum
    /\ start' = 0
    /\ end' = 0
    /\ chunk_id' = chunk_offset
    /\ chunks' = << >>
    /\ taken' = {}
    /\ cpc' = "while"

\* while start < text_len: compute the window's right edge.
ChunkWindow ==
    /\ cpc = "while"
    /\ start < Len(text)
    /\ end' = WindowEnd(text, start, chunk_size)
    /\ cpc' = "slice"
    /\ UNCHANGED <<chunk_size, chunk_overlap, text, filename, page_num, start,
                   chunk_id, chunks, taken>>

\* The while condition fails: return chunks.
ChunkExit ==
    /\ cpc = "while"
    /\ ~(start < Len(text))
    /\ cpc' = "done"
    /\ UNCHANGED <<chunk_size, chunk_overlap, text, filename, page_num, start,
                   end, chunk_id, chunks, taken>>

\* Slice, trim, emit when meaningful, advance, break (lines 191-211).
ChunkEmit ==
    /\ cpc = "slice"
    /\ LET t    == WindowText(text, start, end)
           keep == Meaningful(t)
           nxt  == NextStart(end, chunk_overlap)
       IN  /\ keep => Len(chunks) < MaxChunks
           /\ chunks' = IF keep
                        THEN Append(chunks, DocumentChunk(t, filename, page_num,
                                                          chunk_id, start, end))
                        ELSE chunks
           /\ chunk_id' = IF keep THEN chunk_id + 1 ELSE chunk_id
           /\ taken' = taken \cup {[start |-> start, end |-> end, kept |-> keep]}
           /\ start' = nxt
           /\ cpc' = IF BreakLoop(nxt, Len(text), chunk_overlap) THEN "done" ELSE "while"
    /\ UNCHANGED <<chunk_size, chunk_overlap, text, filename, page_num, end>>

ChunkStep == ChunkWindow \/ ChunkExit \/ ChunkEmit

(***************************************************************************)
(* The texts and configurations chunk_text is run on.                      *)
(***************************************************************************)
\* n letters
Fill(n) == [i \in 1 .. n |-> "a"]

\* n times the letter c
Letters(c, n) == [i \in 1 .. n |-> c]

\* The two-character marks placed in a generated text: two sentence
\* terminators, a run of blanks, and a carriage return with a form feed.
MarkKinds == { <<".", " ">>, <<"\n", "\n">>, <<" ", " ">>, <<"\r", "\f">> }

TextLens == {0, 21, 50, 51, 56, 74, 130, 260}
MarkPos  == {0, 9, 10, 24, 49, 58, 70, 150}

\* n letters with mark m written at each offset of P (cut at the text's end).
MakeText(n, P, m) ==
    [i \in 1 .. n |-> IF (i - 1) \in P THEN m[1]
                      ELSE IF (i - 2) \in P THEN m[2] ELSE "a"]

\* tests/test_retrieve.py, test_chunk_text_basic
ScenarioText == <<
    "T", "h", "i", "s", " ", "i", "s", " ", "s", "e", "n", "t", "e", "n",
    "c", "e", " ", "o", "n", "e", ".", " ", "T", "h", "i", "s", " ", "i",
    "s", " ", "s", "e", "n", "t", "e", "n", "c", "e", " ", "t", "w", "o",
    ".", " ", "T", "h", "i", "s", " ", "i", "s", " ", "s", "e", "n", "t",
    "e", "n", "c", "e", " ", "t", "h", "r", "e", "e", "." >>

\* tests/test_retrieve.py, test_chunk_text_single_long_sentence
LongSentence == <<
    "T", "h", "i", "s", " ", "i", "s", " ", "a", " ", "v", "e", "r", "y",
    " ", "l", "o", "n", "g", " ", "s", "e", "n", "t", "e", "n", "c", "e",
    " ", "t", "h", "a", "t", " ", "d", "e", "f", "i", "n", "i", "t", "e",
    "l", "y", " ", "e", "x", "c", "e", "e", "d", "s", " ", "t", "h", "e",
    " ", "c", "h", "u", "n", "k", " ", "s", "i", "z", "e", " ", "l", "i",
    "m", "i", "t", "." >>

Texts ==
    { MakeText(n, P, m) : n \in TextLens,
                          P \in { Q \in SUBSET MarkPos : Cardinality(Q) <= MaxMarks },
                          m \in MarkKinds }
    \cup {ScenarioText, LongSentence}

\* <<chunk_size, chunk_overlap>>, each with chunk_size > chunk_overlap >= 0
Configs == { <<20, 5>>, <<20, 10>>, <<30, 5>>, <<55, 12>>, <<60, 0>>, <<60, 5>>,
             <<110, 10>>, <<200, 150>> }

NoDirectory == [exists |-> FALSE, files |-> << >>]

IngestIdle ==
    /\ data_dir = NoDirectory
    /\ pdf_files = << >>
    /\ pdf_path = None
    /\ pages = << >>
    /\ all_chunks = << >>
    /\ chunk_id_offset = 0
    /\ ppc = "idle"
    /\ error = None

\* A Python None where an object may stand.
Null == [null |-> TRUE]

\* A file that open(..., 'w') has truncated and whose write did not complete:
\* empty or partial, so that pickle.load and json.load raise on it.
PartialFile == [partial |-> TRUE]

\* ServerState.__init__ (start_time left out: only /status reads it)
ServerState ==
    [index |-> Null, metadata |-> Null, model |-> Null, whisper_model |-> Null,
     ready |-> FALSE]

NoIndexDir == [exists |-> FALSE, index_file |-> Null, metadata_file |-> Null]

ServerIdle ==
    /\ disk = NoIndexDir
    /\ srv = ServerState
    /\ spc = "idle"
    /\ calls = {}
    /\ response = Null
    /\ request = Null
    /\ hits = Null
    /\ read_buffer = << >>

\* main of ingest.py is not running.
MainIdle ==
    /\ mpc = "idle"
    /\ embeddings = << >>
    /\ built_index = Null
    /\ exit_code = None

(***************************************************************************)
(* Spec: one call chunk_text(text, "doc.pdf", 1) on any text and           *)
(* configuration of the families above.                                    *)
(***************************************************************************)
Init ==
    /\ \E c \in Configs : chunk_size = c[1] /\ chunk_overlap = c[2]
    /\ text \in Texts
    /\ filename = "doc.pdf"
    /\ page_num = 1
    /\ start = 0
    /\ end = 0
    /\ chunk_id = 0
    /\ chunks = << >>
    /\ taken = {}
    /\ cpc = "while"
    /\ IngestIdle
    /\ ServerIdle
    /\ MainIdle

Next == ChunkStep /\ UNCHANGED <<ingestVars, serverVars, mainVars>>

Spec == Init /\ [][Next]_vars

\* The interpreter keeps executing a running call.
FairSpec == Spec /\ WF_vars(Next)

(***************************************************************************)
(* process_pdfs.                                                           *)
(***************************************************************************)
FileNames == <<"a.pdf", "b.pdf", "c.pdf", "d.pdf">>

\* What a page of a PDF holds: nothing, a text too short for a chunk, a
\* text of two chunks and a discarded tail.
PageTexts == { << >>, Fill(40), Fill(130) }

SeqsUpTo(S, n) == UNION { [1 .. k -> S] : k \in 0 .. n }

\* A file: whether the PDF library can read it, and its pages' texts.
PdfFiles(T, p) ==
    { [readable |-> FALSE, texts |-> << >>] }
    \cup { [readable |-> TRUE, texts |-> ts] : ts \in SeqsUpTo(T, p) }

\* The directories of at most f files and p pages, the pages' texts in T.
RECURSIVE Directories(_, _, _)
Directories(T, f, p) ==
    { << >> } \cup
    ( IF f = 0 THEN {}
      ELSE UNION { { <<file>> \o rest : rest \in Directories(T, f - 1, p - Len(file.texts)) }
                   : file \in PdfFiles(T, p) } )

\* extract_text_from_pdf: the (page_num, text) pairs of the pages that hold
\* text, or [] when reading the file raises.
ExtractText(file) ==
    IF file.readable
    THEN LET RECURSIVE Collect(_)
             Collect(i) ==
                 IF i > Len(file.texts) THEN << >>
                 ELSE (IF file.texts[i] # << >>
                       THEN << [page_num |-> i, text |-> file.texts[i]] >>
                       ELSE << >>) \o Collect(i + 1)
         IN  Collect(1)
    ELSE << >>

\* The offset advanced by one per page instead of by the page's chunks.
AdvanceOffsetByOne(offset, cs) == offset + 1

\* chunk_id_offset += len(chunks) (line 252)
AdvanceOffset(offset, cs) == offset + Len(cs)

\* Lines 225-238: the directory checks and the initial values.
ProcessOpen ==
    /\ ppc = "start"
    /\ IF ~data_dir.exists
       THEN /\ ppc' = "raised"
            /\ error' = "FileNotFoundError"
            /\ UNCHANGED <<pdf_files, all_chunks, chunk_id_offset>>
       ELSE IF data_dir.files = << >>
       THEN /\ ppc' = "raised"
            /\ error' = "ValueError"
            /\ UNCHANGED <<pdf_files, all_chunks, chunk_id_offset>>
       ELSE /\ pdf_files' = [i \in 1 .. Len(data_dir.files) |->
                                [name |-> FileNames[i], file |-> data_dir.files[i]]]
            /\ all_chunks' = << >>
            /\ chunk_id_offset' = 0
            /\ ppc' = "files"
            /\ UNCHANGED error
    /\ UNCHANGED <<chunkVars, data_dir, pdf_path, pages, serverVars, mainVars>>

\* The failure of the PDF library on a file propagates out of process_pdfs.
NextFileRaising ==
    /\ ppc = "files"
    /\ pdf_files # << >>
    /\ pdf_path' = Head(pdf_files).name
    /\ pdf_files' = Tail(pdf_files)
    /\ IF Head(pdf_files).file.readable
       THEN /\ pages' = ExtractText(Head(pdf_files).file)
            /\ ppc' = "pages"
            /\ UNCHANGED error
       ELSE /\ ppc' = "raised"
            /\ error' = "PdfReadError"
            /\ UNCHANGED pages
    /\ UNCHANGED <<chunkVars, data_dir, all_chunks, chunk_id_offset, serverVars, mainVars>>

\* for pdf_path in pdf_files: pages = self.extract_text_from_pdf(...)
NextFile ==
    /\ ppc = "files"
    /\ pdf_files # << >>
    /\ pdf_path' = Head(pdf_files).name
    /\ pages' = ExtractText(Head(pdf_files).file)
    /\ pdf_files' = Tail(pdf_files)
    /\ ppc' = "pages"
    /\ UNCHANGED <<chunkVars, data_dir, all_chunks, chunk_id_offset, error, serverVars, mainVars>>

\* The loop over the files ends: return all_chunks.
FilesDone ==
    /\ ppc = "files"
    /\ pdf_files = << >>
    /\ ppc' = "returned"
    /\ UNCHANGED <<chunkVars, data_dir, pdf_files, pdf_path, pages, all_chunks,
                   chunk_id_offset, error, serverVars, mainVars>>

\* for page_num, page_text in pages: chunks = self.chunk_text(...)
NextPage ==
    /\ ppc = "pages"
    /\ pages # << >>
    /\ EnterChunkText(Head(pages).text, pdf_path, Head(pages).page_num, chunk_id_offset)
    /\ pages' = Tail(pages)
    /\ ppc' = "chunking"
    /\ UNCHANGED <<chunk_size, chunk_overlap, data_dir, pdf_files, pdf_path,
                   all_chunks, chunk_id_offset, error, serverVars, mainVars>>

\* The loop over the pages of a file ends.
PagesDone ==
    /\ ppc = "pages"
    /\ pages = << >>
    /\ ppc' = "files"
    /\ UNCHANGED <<chunkVars, data_dir, pdf_files, pdf_path, pages, all_chunks,
                   chunk_id_offset, error, serverVars, mainVars>>

\* chunk_text runs.
Chunking ==
    /\ ppc = "chunking"
    /\ ChunkStep
    /\ UNCHANGED <<ingestVars, serverVars, mainVars>>

\* chunk_text has returned: all_chunks.extend(chunks), advance the offset.
PageDone ==
    /\ ppc = "chunking"
    /\ cpc = "done"
    /\ all_chunks' = all_chunks \o chunks
    /\ chunk_id_offset' = AdvanceOffset(chunk_id_offset, chunks)
    /\ cpc' = "idle"
    /\ ppc' = "pages"
    /\ UNCHANGED <<chunk_size, chunk_overlap, text, filename, page_num, start, end,
                   chunk_id, chunks, taken, data_dir, pdf_files, pdf_path, pages,
                   error, serverVars, mainVars>>

IngestConfigs == { <<60, 5>> }

(***************************************************************************)
(* IngestSpec: one call process_pdfs(data_dir) on any directory of at most *)
(* MaxFiles files and MaxPages pages.                                      *)
(***************************************************************************)
IngestInit ==
    /\ \E c \in IngestConfigs : chunk_size = c[1] /\ chunk_overlap = c[2]
    /\ text = << >>
    /\ filename = None
    /\ page_num = 0
    /\ start = 0
    /\ end = 0
    /\ chunk_id = 0
    /\ chunks = << >>
    /\ taken = {}
    /\ cpc = "idle"
    /\ data_dir \in {NoDirectory}
                    \cup { [exists |-> TRUE, files |-> fs] :
                            fs \in Directories(PageTexts, MaxFiles, MaxPages) }
    /\ pdf_files = << >>
    /\ pdf_path = None
    /\ pages = << >>
    /\ all_chunks = << >>
    /\ chunk_id_offset = 0
    /\ ppc = "start"
    /\ error = None
    /\ ServerIdle
    /\ MainIdle

IngestNext ==
    \/ ProcessOpen
    \/ NextFile
    \/ FilesDone
    \/ NextPage
    \/ PagesDone
    \/ Chunking
    \/ PageDone

IngestSpec == IngestInit /\ [][IngestNext]_vars

(***************************************************************************)
(* server.py: vectors, the embedding model and the FAISS index.            *)
(* A vector is a tuple of integers with one non-zero coordinate, so that   *)
(* its L2 norm and its normalised form are integers too.                   *)
(***************************************************************************)
Dims == {2, 3}

RECURSIVE SumTo(_, _)
SumTo(f, n) == IF n = 0 THEN 0 ELSE f[n] + SumTo(f, n - 1)

\* inner product
Dot(u, v) == SumTo([i \in 1 .. Len(u) |-> u[i] * v[i]], Len(u))

Axis(d, j, c) == [i \in 1 .. d |-> IF i = j THEN c ELSE 0]

\* the L2 norm of a vector whose squared norm is a square
Norm(v) == CHOOSE r \in 0 .. Dot(v, v) : r * r = Dot(v, v)

\* faiss.normalize_L2 on one row: a zero row is left as it is
NormalizeL2(v) == IF Norm(v) = 0 THEN v ELSE [i \in 1 .. Len(v) |-> v[i] \div Norm(v)]

\* SentenceTransformer(name).encode([query]): the model of dimension d sends
\* query j to a vector of length 2 along axis j (modulo d).
Queries == {1, 2, 3}
Encode(model, query) == Axis(model.dim, ((query - 1) % model.dim) + 1, 2)

\* The stored indexes: IndexFlatIP of dimension d over normalised rows.
StoredIndexes ==
    UNION { { [d |-> d, vectors |-> vs] :
                vs \in SeqsUpTo({ Axis(d, j, 1) : j \in 1 .. d }, MaxVectors) }
            : d \in Dims }

Ntotal(index) == Len(index.vectors)

\* The stored metadata: what save_index pickles.
StoredChunk(i) == DocumentChunk(Fill(51), "a.pdf", i + 1, i, 0, 60)

StoredMetadata ==
    { [chunks |-> [i \in 1 .. n |-> StoredChunk(i - 1)],
       embedding_model |-> "mpnet", embedding_dim |-> d,
       chunk_size |-> 60, chunk_overlap |-> 5, num_chunks |-> n] :
        n \in 0 .. MaxVectors, d \in Dims }

\* Stored metadata of three chunks of 1300 characters: a file larger than
\* one read buffer.
LongStoredChunk(i) == DocumentChunk(Fill(1300), "a.pdf", i + 1, i, 0, 1300)

LongStoredMetadata ==
    { [chunks |-> [i \in 1 .. 3 |-> LongStoredChunk(i - 1)],
       embedding_model |-> "mpnet", embedding_dim |-> d,
       chunk_size |-> 1300, chunk_overlap |-> 100, num_chunks |-> 3] :
        d \in Dims }

\* The orders of the members of S.
RECURSIVE Orders(_)
Orders(S) ==
    IF S = {} THEN { << >> }
    ELSE UNION { { <<x>> \o rest : rest \in Orders(S \ {x}) } : x \in S }

\* The orders of the labels 0 .. n-1 of an index of n rows.
LabelOrders == [n \in 0 .. MaxVectors |-> Orders(0 .. n - 1)]

\* index.search(query, k) on one query row: the labels of the k best rows by
\* inner product, best first, rows of equal score in an order FAISS chooses,
\* padded with -1 when the index holds fewer than k rows.
SearchResults(index, q, k) ==
    LET n == Ntotal(index)
        m == Min(k, n)
        score(l) == Dot(q, index.vectors[l + 1])
        ranked == { r \in LabelOrders[n] :
                      \A a \in 1 .. n - 1 : score(r[a]) >= score(r[a + 1]) }
    IN  { [i \in 1 .. k |-> IF i <= m THEN [label |-> r[i], distance |-> score(r[i])]
                                ELSE [label |-> -1, distance |-> -2]] :
          r \in ranked }

(***************************************************************************)
(* metadata.pkl: the bytes pickle.dump(metadata, f) writes (protocol 4,    *)
(* one frame) and what pickle.load(f) makes of the raw reads of the file.  *)
(***************************************************************************)
\* The buffer of open(metadata_file, 'rb'): the block size of the file
\* system. pickle.load gets a file of at most that size in one raw read, a
\* larger one of less than twice that size in two.
BufferSize == 4096

\* pickle writes a dictionary of fewer bytes than this as one frame, in one
\* raw write.
FrameSize == 65536

\* len(datetime.now().isoformat()), the value of "created_at", at a time
\* whose microsecond is not 0
CreatedAtLen == 26

\* The characters that are not ASCII, and those of them of two bytes in
\* UTF-8; the others have three.
WideChars ==
    {Danda} \cup (Whitespace \ {" ", "\n", "\t", "\r", "\f", "x0b", "x1c", "x1d", "x1e", "x1f"})

TwoByteChars == {"x85", "xa0"}

\* The bytes of a text in UTF-8: one for each character, and those the
\* characters at the places W, which are not ASCII, have more.
WideBytes(t, W) ==
    Len(t) + Cardinality(W) + Cardinality({ i \in W : t[i] \notin TwoByteChars })

Utf8Bytes(t) == WideBytes(t, { i \in 1 .. Len(t) : t[i] \in WideChars })

\* The place of a unit that holds no value of the dictionary.
NoPath == <<0, "">>

\* One unit of the stream, what the unpickler gets with one read: an opcode
\* ("op"), bytes the format fixes ("raw"), the bytes of a string ("str") or
\* of an integer ("int") of the dictionary, the index of a memoized object
\* ("get"). path says which value of the dictionary it holds: <<i, key>> in
\* chunk i, <<0, key>> at the top; memo is the index the object gets in the
\* memo; at is the offset of the unit in the file.
Unit(n, kind, tag, path, val, memo) ==
    << [at |-> 0, len |-> n, kind |-> kind, tag |-> tag, path |-> path, val |-> val,
        memo |-> memo] >>

Opcode(code) == Unit(1, "op", code, NoPath, 0, -1)

Memoize == Opcode(148)

\* SHORT_BINUNICODE or BINUNICODE, the length, the n bytes, MEMOIZE
StringUnits(n, kind, path, val, memo) ==
    (IF n < 256 THEN Opcode(140) \o Unit(1, "raw", n, NoPath, 0, -1)
                ELSE Opcode(88) \o Unit(4, "raw", n, NoPath, 0, -1))
    \o Unit(n, kind, IF kind = "str" THEN 0 ELSE n, path, val, memo)
    \o Memoize

\* BINGET or LONG_BINGET: an object the stream holds already
GetUnits(idx, path) ==
    IF idx < 256 THEN Opcode(104) \o Unit(1, "get", idx, path, 0, -1)
                 ELSE Opcode(106) \o Unit(4, "get", idx, path, 0, -1)

\* BININT1, BININT2 or BININT
IntUnits(v, path) ==
    IF v \in 0 .. 255 THEN Opcode(75) \o Unit(1, "int", 0, path, v, -1)
    ELSE IF v \in 256 .. 65535 THEN Opcode(77) \o Unit(2, "int", 0, path, v, -1)
    ELSE Opcode(74) \o Unit(4, "int", 0, path, v, -1)

\* The keys of to_dict are string literals of the code, one object each:
\* the first chunk writes them, at these indexes of the memo.
KeyIndex ==
    [text |-> 4, filename |-> 6, page_num |-> 8, chunk_id |-> 9, char_start |-> 10,
     char_end |-> 11, excerpt |-> 12]

KeyUnits(name, first) ==
    IF first THEN StringUnits(Len(name), "raw", NoPath, 0, -1)
             ELSE GetUnits(KeyIndex[name], NoPath)

\* The file name is one object for all the chunks of a file.
NewName(cs, i) == \A k \in 1 .. i - 1 : cs[k].filename # cs[i].filename

\* The excerpt of a text of at most 100 characters is the text itself
\* (DocumentChunk.__init__, line 61).
OwnExcerpt(c) == c.excerpt # c.text

\* The objects memoized before the dictionary of chunk i.
MemoBefore(cs, i) ==
    3 + (IF i > 1 THEN 7 ELSE 0) + 2 * (i - 1)
      + Cardinality({ k \in 1 .. i - 1 : NewName(cs, k) })
      + Cardinality({ k \in 1 .. i - 1 : OwnExcerpt(cs[k]) })

TextIndex(cs, i) == MemoBefore(cs, i) + (IF i = 1 THEN 2 ELSE 1)

NameIndex(cs, i) ==
    LET k == CHOOSE k \in 1 .. i : cs[k].filename = cs[i].filename /\ NewName(cs, k)
    IN  TextIndex(cs, k) + (IF k = 1 THEN 2 ELSE 1)

\* One dictionary of "chunks".
ChunkUnits(cs, i) ==
    LET c == cs[i]
        first == i = 1
    IN  Opcode(125) \o Memoize \o Opcode(40)
        \o KeyUnits("text", first)
        \o StringUnits(Utf8Bytes(c.text), "str", <<i, "text">>, c.text, TextIndex(cs, i))
        \o KeyUnits("filename", first)
        \o (IF NewName(cs, i)
            THEN StringUnits(Len(c.filename), "str", <<i, "filename">>, c.filename,
                             NameIndex(cs, i))
            ELSE GetUnits(NameIndex(cs, i), <<i, "filename">>))
        \o KeyUnits("page_num", first) \o IntUnits(c.page_num, <<i, "page_num">>)
        \o KeyUnits("chunk_id", first) \o IntUnits(c.chunk_id, <<i, "chunk_id">>)
        \o KeyUnits("char_start", first) \o IntUnits(c.char_start, <<i, "char_start">>)
        \o KeyUnits("char_end", first) \o IntUnits(c.char_end, <<i, "char_end">>)
        \o KeyUnits("excerpt", first)
        \o (IF OwnExcerpt(c)
            THEN StringUnits(Utf8Bytes(c.excerpt), "str", <<i, "excerpt">>, c.excerpt, -1)
            ELSE GetUnits(TextIndex(cs, i), <<i, "excerpt">>))
        \o Opcode(117)
        \o (IF Len(cs) = 1 THEN Opcode(97) ELSE << >>)

\* The units j, j+1, ... of U placed from offset at of the file on.
RECURSIVE PlacedFrom(_, _, _)
PlacedFrom(U, j, at) ==
    IF j > Len(U) THEN << >>
    ELSE << [U[j] EXCEPT !.at = at] >> \o PlacedFrom(U, j + 1, at + U[j].len)

\* The offset after the last of the placed units U.
After(U) == U[Len(U)].at + U[Len(U)].len

\* The placed units U, then the units T.
Followed(U, T) == U \o PlacedFrom(T, 1, After(U))

\* The dictionaries of the chunks i, i+1, ... after the placed units U.
RECURSIVE ChunksFrom(_, _, _)
ChunksFrom(U, cs, i) ==
    IF i > Len(cs) THEN U ELSE ChunksFrom(Followed(U, ChunkUnits(cs, i)), cs, i + 1)

\* PROTO 4, FRAME, the dictionary, its key "chunks", the list of n items
HeadUnits(n) ==
    Opcode(128) \o Unit(1, "raw", 4, NoPath, 0, -1)
    \o Opcode(149) \o Unit(8, "raw", 0, NoPath, 0, -1)
    \o Opcode(125) \o Memoize \o Opcode(40)
    \o StringUnits(6, "raw", NoPath, 0, -1)
    \o Opcode(93) \o Memoize
    \o (IF n >= 2 THEN Opcode(40) ELSE << >>)

\* The end of the list, the six other keys with their values, STOP
TailUnits(m) ==
    (IF Len(m.chunks) >= 2 THEN Opcode(101) ELSE << >>)
    \o StringUnits(15, "raw", NoPath, 0, -1)
    \o StringUnits(Len(m.embedding_model), "str", <<0, "embedding_model">>,
                   m.embedding_model, -1)
    \o StringUnits(13, "raw", NoPath, 0, -1)
    \o IntUnits(m.embedding_dim, <<0, "embedding_dim">>)
    \o StringUnits(10, "raw", NoPath, 0, -1)
    \o IntUnits(m.chunk_size, <<0, "chunk_size">>)
    \o StringUnits(13, "raw", NoPath, 0, -1)
    \o IntUnits(m.chunk_overlap, <<0, "chunk_overlap">>)
    \o StringUnits(10, "raw", NoPath, 0, -1)
    \o StringUnits(CreatedAtLen, "raw", NoPath, 0, -1)
    \o StringUnits(10, "raw", NoPath, 0, -1)
    \o IntUnits(m.num_chunks, <<0, "num_chunks">>)
    \o Opcode(117) \o Opcode(46)

\* pickle.dump(metadata, f), line 337: the stream of a metadata dictionary.
PickleUnits(m) ==
    Followed(ChunksFrom(PlacedFrom(HeadUnits(Len(m.chunks)), 1, 0), m.chunks, 1), TailUnits(m))

\* The size of metadata.pkl in bytes.
PickleSize(m) == After(PickleUnits(m))

\* The offsets of the file at which the raw reads after the first begin,
\* for a file of size bytes: the reader takes whole blocks in one raw read
\* and what is left after them in another.
ReadCuts(size) ==
    IF size <= BufferSize THEN << >>
    ELSE LET whole == BufferSize * (1 + (size - BufferSize) \div BufferSize)
         IN  IF BufferSize < whole /\ whole < size THEN <<BufferSize, whole>>
                                                  ELSE <<BufferSize>>

\* The units of a stream that begin in its first cut bytes.
UnitsBefore(U, cut) == Cardinality({ j \in 1 .. Len(U) : U[j].at < cut })

\* Two units that differ in nothing but the value they hold.
SameShape(u, v) ==
    u.len = v.len /\ u.kind = v.kind /\ u.tag = v.tag /\ u.path = v.path

\* Two streams with the same n units in their first cut bytes.
Alike(U1, U2, cut, n) ==
    /\ n = UnitsBefore(U2, cut)
    /\ \A j \in 1 .. n : SameShape(U1[j], U2[j])

\* An integer of n bytes (little-endian) whose k low bytes are those of v1
\* and whose other bytes are those of v2.
SpliceInt(v1, v2, n, k) ==
    LET base == 256 ^ k
        w == ((v1 % (256 ^ n)) % base) + ((v2 % (256 ^ n)) \div base) * base
    IN  IF n = 4 /\ w >= 2 ^ 31 THEN w - 2 ^ 32 ELSE w

\* The value of a unit whose bytes before cut are those of u1 and whose
\* other bytes are those of u2, two units of one shape at one offset.
SpliceValue(u1, u2, cut) ==
    IF u2.at + u2.len <= cut \/ u1.val = u2.val THEN u1.val
    ELSE IF u2.kind = "int" THEN SpliceInt(u1.val, u2.val, u2.len, cut - u2.at)
    ELSE SubSeq(u1.val, 1, cut - u2.at) \o SubSeq(u2.val, cut - u2.at + 1, Len(u2.val))

\* The stream whose first cut bytes are those of U1 and whose other bytes
\* are those of U2, two streams alike before cut.
Spliced(U1, U2, cut) ==
    [j \in 1 .. Len(U2) |->
        IF U2[j].at < cut /\ U2[j].kind \in {"str", "int"}
        THEN [U2[j] EXCEPT !.val = SpliceValue(U1[j], U2[j], cut)]
        ELSE U2[j]]

\* The streams a splice is worked out for: streams of one frame, alike
\* before the cut, and at the cut no character of several bytes and no file
\* name or model name that differs between the two.
InReach(U1, U2, cut, n) ==
    /\ After(U2) < FrameSize
    /\ Alike(U1, U2, cut, n)
    /\ (/\ U1[n].kind = "str"
        /\ U1[n].at + U1[n].len > cut
        /\ U1[n].val # U2[n].val)
       => /\ U1[n].path[2] \in {"text", "excerpt"}
          /\ Utf8Bytes(U1[n].val) = Len(U1[n].val)
          /\ Utf8Bytes(U2[n].val) = Len(U2[n].val)

\* What the unpickler holds for unit j of the stream U: the value of the
\* unit, or of the memoized unit it names.
UnitValue(U, j) ==
    IF U[j].kind = "get" THEN U[CHOOSE k \in 1 .. Len(U) : U[k].memo = U[j].tag].val
                         ELSE U[j].val

\* pickle.load of the bytes U, read after a first block that announced a
\* frame up to offset size: a dictionary of c chunks. The unpickler asks for
\* the frame the first bytes announce: fewer bytes are truncated data, and a
\* unit across the end of the frame is an error. Null stands for an
\* exception.
Unpickled(U, size, c) ==
    LET At(i, key) == UnitValue(U, CHOOSE j \in 1 .. Len(U) : U[j].path = <<i, key>>)
    IN  IF After(U) < size THEN Null
        ELSE IF \E j \in 1 .. Len(U) : U[j].at < size /\ size < U[j].at + U[j].len
             THEN Null
        ELSE [chunks |->
                 [i \in 1 .. c |->
                     [text |-> At(i, "text"), filename |-> At(i, "filename"),
                      page_num |-> At(i, "page_num"), chunk_id |-> At(i, "chunk_id"),
                      char_start |-> At(i, "char_start"),
                      char_end |-> At(i, "char_end"), excerpt |-> At(i, "excerpt")]],
              embedding_model |-> At(0, "embedding_model"),
              embedding_dim |-> At(0, "embedding_dim"),
              chunk_size |-> At(0, "chunk_size"),
              chunk_overlap |-> At(0, "chunk_overlap"),
              num_chunks |-> At(0, "num_chunks")]

\* pickle.load over two raw reads: the first gave the first BufferSize bytes
\* of the stream U1, the second gives the bytes of the stream U2, a
\* dictionary of c chunks, from that offset on. The values before the cut
\* are those of U1, the values after it those of U2. A stream U2 not like
\* U1 before the cut makes the unpickler read the bytes of one item as
\* another: no outcome is worked out for it here, unless it is the shorter.
TwoReads(U1, U2, c) ==
    IF After(U2) < After(U1) THEN {Null}
    ELSE IF InReach(U1, U2, BufferSize, UnitsBefore(U1, BufferSize))
    THEN { Unpickled(Spliced(U1, U2, BufferSize), After(U1), c) }
    ELSE {}

\* pickle.load over three raw reads, of the streams U1, U2 and U3: the second
\* read ends at offset cut.
ThreeReads(U1, U2, U3, cut, c) ==
    IF After(U3) < After(U1) THEN {Null}
    ELSE IF /\ InReach(U1, U2, BufferSize, UnitsBefore(U1, BufferSize))
            /\ InReach(Spliced(U1, U2, BufferSize), U3, cut, UnitsBefore(U2, cut))
    THEN { Unpickled(Spliced(Spliced(U1, U2, BufferSize), U3, cut), After(U1), c) }
    ELSE {}

\* What pickle.load makes of the last raw read, having read the files read
\* before it: an empty or missing file is truncated data.
LastRead(read, file) ==
    IF file \in {Null, PartialFile} THEN {Null}
    ELSE IF Len(read) = 1
    THEN TwoReads(PickleUnits(read[1]), PickleUnits(file), Len(file.chunks))
    ELSE ThreeReads(PickleUnits(read[1]), PickleUnits(read[2]), PickleUnits(file),
                    ReadCuts(PickleSize(read[1]))[2], Len(file.chunks))

(***************************************************************************)
(* server.py: startup_event.                                               *)
(***************************************************************************)
\* settings.embedding_model and the dimension of that model's vectors
EmbeddingModel == [name |-> "mpnet", dim |-> SetMax(Dims)]

\* load_embedding_model: the model is constructed, or the constructor raises.
LoadEmbeddingModel ==
    /\ spc = "start"
    /\ \E loaded \in BOOLEAN :
          IF loaded
          THEN /\ srv' = [srv EXCEPT !.model = EmbeddingModel]
               /\ spc' = "model_loaded"
          ELSE /\ spc' = "failed"
               /\ UNCHANGED srv
    /\ UNCHANGED <<chunkVars, ingestVars, mainVars, disk, calls, response, request, hits, read_buffer>>

\* load_index_and_metadata, lines 174-189: the directory, the index file.
LoadIndex ==
    /\ spc = "model_loaded"
    /\ IF disk.exists /\ disk.index_file # Null
       THEN /\ srv' = [srv EXCEPT !.index = disk.index_file]
            /\ spc' = "index_loaded"
       ELSE /\ spc' = "failed"
            /\ UNCHANGED srv
    /\ UNCHANGED <<chunkVars, ingestVars, mainVars, disk, calls, response, request, hits, read_buffer>>

\* A missing metadata file does not stop the startup.
LoadMetadataLenient ==
    /\ spc = "index_loaded"
    /\ LET file == disk.metadata_file
       IN  IF file \in {Null, PartialFile}
           THEN /\ spc' = "metadata_loaded"
                /\ UNCHANGED <<srv, read_buffer>>
           ELSE \E size \in {PickleSize(file)} :
                   IF size <= BufferSize
                   THEN /\ srv' = [srv EXCEPT !.metadata = file]
                        /\ spc' = "metadata_loaded"
                        /\ UNCHANGED read_buffer
                   ELSE /\ size < FrameSize
                        /\ read_buffer' = <<file>>
                        /\ spc' = "metadata_reading"
                        /\ UNCHANGED srv
    /\ UNCHANGED <<chunkVars, ingestVars, mainVars, disk, calls, response, request, hits>>

\* load_index_and_metadata, lines 191-198: the metadata file is missing, or
\* it is opened and pickle.load makes its first raw read of it. An empty
\* file is an EOFError; a file of one buffer is unpickled; of a larger file
\* pickle.load has the first block and reads on.
LoadMetadata ==
    /\ spc = "index_loaded"
    /\ LET file == disk.metadata_file
       IN  IF file \in {Null, PartialFile}
           THEN /\ spc' = "failed"
                /\ UNCHANGED <<srv, read_buffer>>
           ELSE \E size \in {PickleSize(file)} :
                   IF size <= BufferSize
                   THEN /\ srv' = [srv EXCEPT !.metadata = file]
                        /\ spc' = "metadata_loaded"
                        /\ UNCHANGED read_buffer
                   ELSE /\ size < FrameSize
                        /\ read_buffer' = <<file>>
                        /\ spc' = "metadata_reading"
                        /\ UNCHANGED srv
    /\ UNCHANGED <<chunkVars, ingestVars, mainVars, disk, calls, response, request, hits>>

\* load_index_and_metadata, lines 197-205: the next raw read of
\* pickle.load, of the file as it is by then: the whole blocks of a frame of
\* two buffers or more, or the last of the frame; a model name that differs
\* from the configured one is only printed.
LoadMetadataRest ==
    /\ spc = "metadata_reading"
    /\ LET file == disk.metadata_file
       IN  \E cuts \in {ReadCuts(PickleSize(read_buffer[1]))} :
              IF Len(read_buffer) < Len(cuts)
              THEN IF file \in {Null, PartialFile}
                   THEN /\ spc' = "failed"
                        /\ read_buffer' = << >>
                        /\ UNCHANGED srv
                   ELSE \E size \in {PickleSize(file)} :
                           /\ size < FrameSize
                           /\ IF size < cuts[2]
                              THEN /\ spc' = "failed"
                                   /\ read_buffer' = << >>
                              ELSE /\ read_buffer' = Append(read_buffer, file)
                                   /\ UNCHANGED spc
                           /\ UNCHANGED srv
              ELSE /\ \E loaded \in LastRead(read_buffer, file) :
                         IF loaded # Null
                         THEN /\ srv' = [srv EXCEPT !.metadata = loaded]
                              /\ spc' = "metadata_loaded"
                         ELSE /\ spc' = "failed"
                              /\ UNCHANGED srv
                   /\ read_buffer' = << >>
    /\ UNCHANGED <<chunkVars, ingestVars, mainVars, disk, calls, response, request, hits>>

\* load_whisper_model (it never raises), then state.ready = True.
BecomeReady ==
    /\ spc = "metadata_loaded"
    /\ \E whisper \in BOOLEAN :
          srv' = [srv EXCEPT !.whisper_model = IF whisper THEN [name |-> "base"] ELSE Null,
                             !.ready = TRUE]
    /\ spc' = "ready"
    /\ UNCHANGED <<chunkVars, ingestVars, mainVars, disk, calls, response, request, hits, read_buffer>>

(***************************************************************************)
(* server.py: retrieve.                                                    *)
(***************************************************************************)
NoThreshold == [given |-> FALSE, value |-> 0]
Thresholds == {NoThreshold} \cup { [given |-> TRUE, value |-> t] : t \in {0, 1} }

\* k: RetrievalRequest allows 1..50; here up to one more than any stored
\* index holds
TopKs == 1 .. (MaxVectors + 1)

Requests == [query : Queries, k : TopKs, threshold : Thresholds]

ServiceNotReady == [status |-> 503, detail |-> "Service not ready"]
InternalError   == [status |-> 500, detail |-> "Internal Server Error"]

\* The threshold test with <= for <.
KeptStrictlyAbove(found, threshold) ==
    SelectSeq(found, LAMBDA h : /\ h.label # -1
                                /\ ~(threshold.given /\ h.distance <= threshold.value))

\* The test for the -1 label left out.
KeptWithPadding(found, threshold) ==
    SelectSeq(found, LAMBDA h : ~(threshold.given /\ h.distance < threshold.value))

\* The hits that become results (lines 330-351): -1 labels and scores under
\* the threshold are skipped.
Kept(found, threshold) ==
    SelectSeq(found, LAMBDA h : /\ h.label # -1
                               /\ ~(threshold.given /\ h.distance < threshold.value))

\* DocumentResult of a hit
DocumentResult(chunk_data, score) ==
    [chunk_id |-> chunk_data.chunk_id, filename |-> chunk_data.filename,
     page_num |-> chunk_data.page_num, text |-> chunk_data.text,
     excerpt |-> chunk_data.excerpt, score |-> score,
     char_start |-> chunk_data.char_start, char_end |-> chunk_data.char_end]

\* The readiness test inverted.
NotReadyInverted(state) == state.ready

\* The refusal of lines 306-307.
NotReady(state) == ~state.ready

\* The handler drops the loaded index.
StateAfterRetrieveDroppingIndex(state) == [state EXCEPT !.index = Null]

\* retrieve assigns no field of state: it reads state.ready, state.model,
\* state.index and state.metadata only.
StateAfterRetrieve(state) == state

\* list[i] of Python: a negative i counts from the end of the list.
Item(list, i) == IF i < 0 THEN list[Len(list) + i + 1] ELSE list[i + 1]

\* POST /retrieve: the handler runs from its first line to its return (it
\* awaits nothing).
Retrieve ==
    /\ spc \notin {"idle", "failed"}
    /\ response = Null
    /\ \E rq \in Requests :
          /\ request' = rq
          /\ IF NotReady(srv)
             THEN /\ response' = ServiceNotReady
                  /\ calls' = {}
                  /\ hits' = Null
             ELSE IF srv.model = Null
             THEN \* state.model.encode on None: AttributeError
                  /\ response' = InternalError
                  /\ calls' = {}
                  /\ hits' = Null
             ELSE IF srv.index = Null
             THEN \* state.index.search on None: AttributeError
                  /\ response' = InternalError
                  /\ calls' = {"encode"}
                  /\ hits' = Null
             ELSE LET q == NormalizeL2(Encode(srv.model, rq.query))
                  IN  IF Len(q) # srv.index.d
                      THEN \* index.search asserts the query's dimension
                           /\ response' = InternalError
                           /\ calls' = {"encode", "search"}
                           /\ hits' = Null
                      ELSE \E found \in SearchResults(srv.index, q, rq.k) :
                             LET kept   == Kept(found, rq.threshold)
                                 labels == { found[i].label : i \in 1 .. Len(found) }
                                             \ {-1}
                                 looked == { kept[i].label : i \in 1 .. Len(kept) }
                                             \cup labels
                             IN  /\ hits' = found
                                 /\ IF looked = {}
                                    THEN /\ response' = [status |-> 200,
                                                         query |-> rq.query,
                                                         results |-> << >>,
                                                         num_results |-> 0]
                                         /\ calls' = {"encode", "search"}
                                    ELSE IF srv.metadata = Null
                                    THEN \* state.metadata['chunks'] on None: TypeError
                                         /\ response' = InternalError
                                         /\ calls' = {"encode", "search"}
                                    ELSE IF \E l \in looked :
                                              \/ l + 1 > Len(srv.metadata.chunks)
                                              \/ -l > Len(srv.metadata.chunks)
                                    THEN \* state.metadata['chunks'][chunk_idx]: IndexError
                                         /\ response' = InternalError
                                         /\ calls' = {"encode", "search", "lookup"}
                                    ELSE /\ response' =
                                              [status |-> 200,
                                               query |-> rq.query,
                                               results |->
                                                  [i \in 1 .. Len(kept) |->
                                                     DocumentResult(
                                                       Item(srv.metadata.chunks,
                                                            kept[i].label),
                                                       kept[i].distance)],
                                               num_results |-> Len(kept)]
                                         /\ calls' = {"encode", "search", "lookup"}
    /\ srv' = StateAfterRetrieve(srv)
    /\ UNCHANGED <<chunkVars, ingestVars, mainVars, disk, spc, read_buffer>>

\* The response is sent; the handler is free for the next request.
Respond ==
    /\ response # Null
    /\ response' = Null
    /\ request' = Null
    /\ hits' = Null
    /\ calls' = {}
    /\ UNCHANGED <<chunkVars, ingestVars, mainVars, disk, srv, spc, read_buffer>>

(***************************************************************************)
(* ServerSpec: one server process over any stored index directory; retrieve *)
(* requests arrive at any time.                                            *)
(***************************************************************************)
\* The index file and the metadata file may come from different ingestion
\* runs; their chunk counts then differ (here by at most one). A run whose
\* write failed leaves the metadata file empty or partial.
IndexDirs ==
    {NoIndexDir}
    \cup { [exists |-> TRUE, index_file |-> Null, metadata_file |-> m] :
             m \in {Null} \cup StoredMetadata }
    \cup { d \in [exists : {TRUE}, index_file : StoredIndexes,
                  metadata_file : {Null, PartialFile} \cup StoredMetadata
                                      \cup LongStoredMetadata] :
             d.metadata_file \notin {Null, PartialFile} =>
                 /\ d.metadata_file.num_chunks <= Ntotal(d.index_file) + 1
                 /\ Ntotal(d.index_file) <= d.metadata_file.num_chunks + 1 }

ServerInit ==
    /\ chunk_size = 0
    /\ chunk_overlap = 0
    /\ text = << >>
    /\ filename = None
    /\ page_num = 0
    /\ start = 0
    /\ end = 0
    /\ chunk_id = 0
    /\ chunks = << >>
    /\ taken = {}
    /\ cpc = "idle"
    /\ IngestIdle
    /\ disk \in IndexDirs
    /\ srv = ServerState
    /\ spc = "start"
    /\ calls = {}
    /\ response = Null
    /\ request = Null
    /\ hits = Null
    /\ read_buffer = << >>
    /\ MainIdle

ServerNext ==
    \/ LoadEmbeddingModel
    \/ LoadIndex
    \/ LoadMetadata
    \/ LoadMetadataRest
    \/ BecomeReady
    \/ Retrieve
    \/ Respond

ServerSpec == ServerInit /\ [][ServerNext]_vars

(***************************************************************************)
(* ingest.py: main, create_embeddings, build_faiss_index, save_index.      *)
(***************************************************************************)
\* SentenceTransformer.encode on one chunk text: a vector of length 2 along
\* an axis that the text's length picks.
EncodeText(model, t) == Axis(model.dim, (Len(t) % model.dim) + 1, 2)

\* The embeddings of all chunks but the first.
CreateEmbeddingsSkippingFirst(model, cs) ==
    [i \in 1 .. Len(cs) - 1 |-> EncodeText(model, cs[i + 1].text)]

\* create_embeddings (lines 271-279): one row per chunk, in list order.
CreateEmbeddings(model, cs) ==
    [i \in 1 .. Len(cs) |-> EncodeText(model, cs[i].text)]

\* faiss.normalize_L2(embeddings) (line 297): every row, in place.
NormalizeRows(embs) == [i \in 1 .. Len(embs) |-> NormalizeL2(embs[i])]

\* build_faiss_index (lines 300-301): IndexFlatIP(embedding_dim), add.
BuildFaissIndex(model, embs) == [d |-> model.dim, vectors |-> embs]

\* DocumentChunk.to_dict
ToDict(chunk) ==
    [text |-> chunk.text, filename |-> chunk.filename, page_num |-> chunk.page_num,
     chunk_id |-> chunk.chunk_id, char_start |-> chunk.char_start,
     char_end |-> chunk.char_end, excerpt |-> chunk.excerpt]

\* save_index: the metadata dictionary (lines 326-334; created_at left out,
\* nothing reads it).
Metadata(model, cs, size, overlap) ==
    [chunks |-> [i \in 1 .. Len(cs) |-> ToDict(cs[i])],
     embedding_model |-> model.name, embedding_dim |-> model.dim,
     chunk_size |-> size, chunk_overlap |-> overlap, num_chunks |-> Len(cs)]

\* save_index: the summary dictionary (lines 342-362).
Summary(model, cs) ==
    LET names == { cs[i].filename : i \in 1 .. Len(cs) }
    IN  [embedding_model |-> model.name,
         num_chunks |-> Len(cs),
         num_documents |-> Cardinality(names),
         documents |->
            [f \in names |->
               [num_chunks |-> Cardinality({ i \in 1 .. Len(cs) : cs[i].filename = f }),
                pages |-> { cs[i].page_num :
                             i \in { j \in 1 .. Len(cs) : cs[j].filename = f } }]]]

\* The three files one run of main writes for the chunks cs.
Artifact(model, cs, size, overlap) ==
    [index_file |-> BuildFaissIndex(model, NormalizeRows(CreateEmbeddings(model, cs))),
     metadata_file |-> Metadata(model, cs, size, overlap),
     summary_file |-> Summary(model, cs)]

\* The output directory: absent, or holding the artifact of an earlier run
\* over one chunk.
NoOutputDir ==
    [exists |-> FALSE, index_file |-> Null, metadata_file |-> Null, summary_file |-> Null]

OldChunks == << StoredChunk(0) >>

OldArtifact == Artifact(EmbeddingModel, OldChunks, 60, 5)

OldOutputDir ==
    [exists |-> TRUE, index_file |-> OldArtifact.index_file,
     metadata_file |-> OldArtifact.metadata_file,
     summary_file |-> OldArtifact.summary_file]

OutputDirs == {NoOutputDir, OldOutputDir}

\* main returns code (lines 424, 443, 449).
MainReturn(code) ==
    /\ mpc' = "exit"
    /\ exit_code' = code

\* The test "if not chunks" left out.
MainProcessedUnchecked ==
    /\ mpc = "process_pdfs"
    /\ ppc \in {"returned", "raised"}
    /\ IF ppc = "raised"
       THEN MainReturn(1)
       ELSE /\ mpc' = "create_embeddings"
            /\ UNCHANGED exit_code
    /\ UNCHANGED <<chunkVars, ingestVars, serverVars, embeddings, built_index>>

\* Lines 420-424: process_pdfs has returned or raised.
MainProcessed ==
    /\ mpc = "process_pdfs"
    /\ ppc \in {"returned", "raised"}
    /\ IF ppc = "raised" \/ all_chunks = << >>
       THEN MainReturn(1)
       ELSE /\ mpc' = "create_embeddings"
            /\ UNCHANGED exit_code
    /\ UNCHANGED <<chunkVars, ingestVars, serverVars, embeddings, built_index>>

\* main saves right after create_embeddings, the index not built.
MainCreateEmbeddingsThenSave ==
    /\ mpc = "create_embeddings"
    /\ \E ok \in BOOLEAN :
          IF ok
          THEN /\ embeddings' = CreateEmbeddings(EmbeddingModel, all_chunks)
               /\ mpc' = "mkdir"
               /\ UNCHANGED exit_code
          ELSE /\ MainReturn(1)
               /\ UNCHANGED embeddings
    /\ UNCHANGED <<chunkVars, ingestVars, serverVars, built_index>>

\* Line 427: create_embeddings(chunks); model.encode may raise.
MainCreateEmbeddings ==
    /\ mpc = "create_embeddings"
    /\ \E ok \in BOOLEAN :
          IF ok
          THEN /\ embeddings' = CreateEmbeddings(EmbeddingModel, all_chunks)
               /\ mpc' = "build_faiss_index"
               /\ UNCHANGED exit_code
          ELSE /\ MainReturn(1)
               /\ UNCHANGED embeddings
    /\ UNCHANGED <<chunkVars, ingestVars, serverVars, built_index>>

\* Line 430: build_faiss_index(embeddings).
MainBuildIndex ==
    /\ mpc = "build_faiss_index"
    /\ embeddings' = NormalizeRows(embeddings)
    /\ built_index' = BuildFaissIndex(EmbeddingModel, NormalizeRows(embeddings))
    /\ mpc' = "mkdir"
    /\ UNCHANGED <<chunkVars, ingestVars, serverVars, exit_code>>

\* save_index, lines 316-317: output_path.mkdir(parents=True, exist_ok=True).
SaveMkdir ==
    /\ mpc = "mkdir"
    /\ \E ok \in BOOLEAN :
          IF ok
          THEN /\ disk' = [disk EXCEPT !.exists = TRUE]
               /\ mpc' = "write_index"
               /\ UNCHANGED exit_code
          ELSE /\ MainReturn(1)
               /\ UNCHANGED disk
    /\ UNCHANGED <<chunkVars, ingestVars, srv, spc, calls, response, request, hits, read_buffer,
                   embeddings, built_index>>

\* save_index, lines 320-321: faiss.write_index(index, "faiss_index.bin").
SaveWriteIndex ==
    /\ mpc = "write_index"
    /\ \E ok \in BOOLEAN :
          IF ok
          THEN /\ disk' = [disk EXCEPT !.index_file = built_index]
               /\ mpc' = "dump_metadata"
               /\ UNCHANGED exit_code
          ELSE /\ MainReturn(1)
               /\ UNCHANGED disk
    /\ UNCHANGED <<chunkVars, ingestVars, srv, spc, calls, response, request, hits, read_buffer,
                   embeddings, built_index>>

\* save_index, lines 325-336: the metadata dictionary is built and
\* open(metadata_file, 'wb') truncates metadata.pkl, or raises.
SaveOpenMetadata ==
    /\ mpc = "dump_metadata"
    /\ \E ok \in BOOLEAN :
          IF ok
          THEN /\ disk' = [disk EXCEPT !.metadata_file = PartialFile]
               /\ mpc' = "pickle_dump"
               /\ UNCHANGED exit_code
          ELSE /\ MainReturn(1)
               /\ UNCHANGED disk
    /\ UNCHANGED <<chunkVars, ingestVars, srv, spc, calls, response, request, hits, read_buffer,
                   embeddings, built_index>>

\* save_index, line 337: pickle.dump(metadata, f); when the write fails the
\* file stays empty or partial.
SaveDumpMetadata ==
    /\ mpc = "pickle_dump"
    /\ \E ok \in BOOLEAN :
          IF ok
          THEN /\ disk' = [disk EXCEPT !.metadata_file =
                              Metadata(EmbeddingModel, all_chunks, chunk_size, chunk_overlap)]
               /\ mpc' = "dump_summary"
               /\ UNCHANGED exit_code
          ELSE /\ MainReturn(1)
               /\ UNCHANGED disk
    /\ UNCHANGED <<chunkVars, ingestVars, srv, spc, calls, response, request, hits, read_buffer,
                   embeddings, built_index>>

\* save_index, lines 341-364: the summary dictionary is built and
\* open(summary_file, 'w') truncates index_summary.json, or raises.
SaveOpenSummary ==
    /\ mpc = "dump_summary"
    /\ \E ok \in BOOLEAN :
          IF ok
          THEN /\ disk' = [disk EXCEPT !.summary_file = PartialFile]
               /\ mpc' = "json_dump"
               /\ UNCHANGED exit_code
          ELSE /\ MainReturn(1)
               /\ UNCHANGED disk
    /\ UNCHANGED <<chunkVars, ingestVars, srv, spc, calls, response, request, hits, read_buffer,
                   embeddings, built_index>>

\* save_index, line 365: json.dump(summary, f); when the write fails the
\* file stays empty or partial; otherwise main returns 0 (line 443).
SaveDumpSummary ==
    /\ mpc = "json_dump"
    /\ \E ok \in BOOLEAN :
          IF ok
          THEN /\ disk' = [disk EXCEPT !.summary_file = Summary(EmbeddingModel, all_chunks)]
               /\ MainReturn(0)
          ELSE /\ MainReturn(1)
               /\ UNCHANGED disk
    /\ UNCHANGED <<chunkVars, ingestVars, srv, spc, calls, response, request, hits, read_buffer,
                   embeddings, built_index>>

(***************************************************************************)
(* MainSpec: one run of main over any data directory of at most MaxFiles   *)
(* files and MaxPages pages, into an output directory that is absent or    *)
(* holds the artifact of an earlier run.                                   *)
(***************************************************************************)
\* main has constructed the pipeline (lines 413-417) and calls process_pdfs:
\* its configuration is one of configs, the files of the data directory are
\* one of dirs and the output directory is one of outs.
MainStartOn(configs, dirs, outs) ==
    /\ \E c \in configs : chunk_size = c[1] /\ chunk_overlap = c[2]
    /\ text = << >>
    /\ filename = None
    /\ page_num = 0
    /\ start = 0
    /\ end = 0
    /\ chunk_id = 0
    /\ chunks = << >>
    /\ taken = {}
    /\ cpc = "idle"
    /\ data_dir \in {NoDirectory} \cup { [exists |-> TRUE, files |-> fs] : fs \in dirs }
    /\ pdf_files = << >>
    /\ pdf_path = None
    /\ pages = << >>
    /\ all_chunks = << >>
    /\ chunk_id_offset = 0
    /\ ppc = "start"
    /\ error = None
    /\ disk \in outs
    /\ srv = ServerState
    /\ calls = {}
    /\ response = Null
    /\ request = Null
    /\ hits = Null
    /\ read_buffer = << >>
    /\ mpc = "process_pdfs"
    /\ embeddings = << >>
    /\ built_index = Null
    /\ exit_code = None

MainStart ==
    MainStartOn(IngestConfigs, Directories(PageTexts, MaxFiles, MaxPages), OutputDirs)

MainInit == MainStart /\ spc = "idle"

MainNext ==
    \/ ProcessOpen
    \/ NextFile
    \/ FilesDone
    \/ NextPage
    \/ PagesDone
    \/ Chunking
    \/ PageDone
    \/ MainProcessed
    \/ MainCreateEmbeddings
    \/ MainBuildIndex
    \/ SaveMkdir
    \/ SaveWriteIndex
    \/ SaveOpenMetadata
    \/ SaveDumpMetadata
    \/ SaveOpenSummary
    \/ SaveDumpSummary

MainSpec == MainInit /\ [][MainNext]_vars

(***************************************************************************)
(* PublishSpec: a run of main writes the output directory while a server   *)
(* process starts up and loads the same directory; the corpus is one of    *)
(* short pages, or one of long pages whose metadata.pkl takes two raw      *)
(* reads.                                                                  *)
(***************************************************************************)
\* --chunk-size and --chunk-overlap left at their defaults (lines 395, 401)
DefaultConfigs == { <<700, 100>> }

\* What a page holds in a corpus of long pages: nothing, or a text of two
\* chunks of 700 characters.
LongPageTexts == { << >>, Letters("b", 1300) }

\* The chunks of an earlier run with the default configuration over a.pdf
\* of three pages of 1300 letters a.
LongOldChunks ==
    [i \in 1 .. 6 |->
        DocumentChunk(Fill(700), "a.pdf", (i + 1) \div 2, i - 1,
                      IF i % 2 = 1 THEN 0 ELSE 600, IF i % 2 = 1 THEN 700 ELSE 1300)]

LongOldArtifact == Artifact(EmbeddingModel, LongOldChunks, 700, 100)

\* The output directory: absent, or that of that run; its metadata.pkl is
\* larger than one read buffer.
LongOutputDirs ==
    { NoOutputDir,
      [exists |-> TRUE, index_file |-> LongOldArtifact.index_file,
       metadata_file |-> LongOldArtifact.metadata_file,
       summary_file |-> LongOldArtifact.summary_file] }

\* The corpora of one file of long pages.
LongDirectories == Directories(LongPageTexts, 1, MaxPages)

PublishInit ==
    /\ \/ MainStart
       \/ MainStartOn(DefaultConfigs, LongDirectories, LongOutputDirs)
    /\ spc = "start"

PublishNext ==
    \/ ProcessOpen
    \/ NextFile
    \/ FilesDone
    \/ NextPage
    \/ PagesDone
    \/ Chunking
    \/ PageDone
    \/ MainProcessed
    \/ MainCreateEmbeddings
    \/ MainBuildIndex
    \/ SaveMkdir
    \/ SaveWriteIndex
    \/ SaveOpenMetadata
    \/ SaveDumpMetadata
    \/ SaveOpenSummary
    \/ SaveDumpSummary
    \/ LoadEmbeddingModel
    \/ LoadIndex
    \/ LoadMetadata
    \/ LoadMetadataRest
    \/ BecomeReady

PublishSpec == PublishInit /\ [][PublishNext]_vars

(***************************************************************************)
(* ConfigSpec: PDFIngestionPipeline(chunk_size, chunk_overlap) constructed *)
(* with arguments outside chunk_size > chunk_overlap >= 0, then one call   *)
(* of chunk_text.  __init__ stores the two arguments as they are given.    *)
(***************************************************************************)
InvalidConfigs == { <<0, 0>>, <<20, 20>>, <<60, 60>> }

ConfigInit ==
    /\ \E c \in InvalidConfigs : chunk_size = c[1] /\ chunk_overlap = c[2]
    /\ text \in Texts
    /\ filename = "doc.pdf"
    /\ page_num = 1
    /\ start = 0
    /\ end = 0
    /\ chunk_id = 0
    /\ chunks = << >>
    /\ taken = {}
    /\ cpc = "while"
    /\ IngestIdle
    /\ ServerIdle
    /\ MainIdle

ConfigSpec == ConfigInit /\ [][Next]_vars

(***************************************************************************)
(* WideSpec: one call of chunk_text under configurations with              *)
(* chunk_size - chunk_overlap >= 100, as the defaults 700 and 100 have.    *)
(***************************************************************************)
WideConfigs == { <<100, 0>>, <<110, 10>>, <<150, 50>> }

WideInit ==
    /\ \E c \in WideConfigs : chunk_size = c[1] /\ chunk_overlap = c[2]
    /\ text \in Texts
    /\ filename = "doc.pdf"
    /\ page_num = 1
    /\ start = 0
    /\ end = 0
    /\ chunk_id = 0
    /\ chunks = << >>
    /\ taken = {}
    /\ cpc = "while"
    /\ IngestIdle
    /\ ServerIdle
    /\ MainIdle

\* The interpreter keeps executing a running call.
WideSpec == WideInit /\ [][Next]_vars /\ WF_vars(Next)

(***************************************************************************)
(* Properties.                                                             *)
(***************************************************************************)

\* Positions of the text that lie in the span of some returned chunk.
InChunk(p) == \E i \in 1 .. Len(chunks) :
                 chunks[i].char_start <= p /\ p < chunks[i].char_end

\* Positions of the text that lie in a window the 50-character floor dropped.
InDiscarded(p) == \E w \in taken : ~w.kept /\ w.start <= p /\ p < w.end

\* The text holds none of the five sentence terminators chunk_text looks for.
NoTerminator(s) == SetMax(SentenceEnds(s, 0, Len(s))) = -1

\* C1: for every text and every configuration with chunk_size > overlap >= 0
\* chunk_text returns after finitely many iterations. Stated for the runs
\* that stay below MaxChunks chunks: each of them reaches the return.
C1_ChunkTextReturns == <>(cpc = "done" \/ Len(chunks) >= MaxChunks)

\* C2: in the list chunk_text builds, char_start and char_end never decrease
\* from one chunk to the next.
C2_OffsetsNonDecreasing ==
    \A i \in 1 .. Len(chunks) - 1 :
        /\ chunks[i].char_start <= chunks[i + 1].char_start
        /\ chunks[i].char_end <= chunks[i + 1].char_end

\* C2 witness: a returned list of three chunks, the second cut at a sentence
\* boundary (shorter than chunk_size) and the third reaching the end of text.
C2_Witness ==
    /\ cpc = "done"
    /\ Len(chunks) >= 3
    /\ chunks[2].char_end - chunks[2].char_start < chunk_size
    /\ chunks[2].char_start < chunks[3].char_start
    /\ chunks[2].char_end < chunks[3].char_end

\* C3 as the specification states it: when chunk_text has returned for a
\* non-empty text, every character position lies in the span of a chunk.
C3_ChunksCoverText ==
    (cpc = "done" /\ Len(text) > 0) =>
        \A p \in 0 .. Len(text) - 1 : InChunk(p)

\* C3, amended: when chunk_text has returned, every character position lies
\* in the span of a returned chunk or in a window that was dropped because
\* its trimmed slice had 50 characters or fewer.
C3_WindowsCoverText ==
    cpc = "done" =>
        \A p \in 0 .. Len(text) - 1 : InChunk(p) \/ InDiscarded(p)

\* C3 witness: chunk_text has returned chunks, and a position between two of
\* them lies in no chunk, only in a dropped window.
C3_Witness ==
    /\ cpc = "done"
    /\ Len(chunks) >= 2
    /\ \E p \in 0 .. Len(text) - 1 :
          /\ ~InChunk(p)
          /\ InDiscarded(p)
          /\ chunks[1].char_end <= p
          /\ p < chunks[Len(chunks)].char_start

\* C4 as the specification states it: each chunk starts exactly overlap
\* characters before the end of the chunk before it, unless it reaches the
\* end of the text.
C4_ExactOverlap ==
    \A i \in 1 .. Len(chunks) - 1 :
        \/ chunks[i + 1].char_start = chunks[i].char_end - chunk_overlap
        \/ chunks[i + 1].char_end >= Len(text)

\* C4, amended: each chunk starts exactly overlap characters before the end
\* of the chunk before it, unless a window starting there was dropped by the
\* 50-character floor between the two.
C4_OverlapOrDiscarded ==
    \A i \in 1 .. Len(chunks) - 1 :
        \/ chunks[i + 1].char_start = chunks[i].char_end - chunk_overlap
        \/ \E w \in taken :
              /\ ~w.kept
              /\ w.start = chunks[i].char_end - chunk_overlap
              /\ w.end <= chunks[i + 1].char_start + chunk_overlap

\* C4 witness: a positive overlap, two consecutive chunks sharing exactly
\* that many characters, and the later one ending before the end of text.
C4_Witness ==
    /\ chunk_overlap > 0
    /\ Len(chunks) >= 2
    /\ chunks[2].char_start = chunks[1].char_end - chunk_overlap
    /\ chunks[2].char_end < Len(text)

\* C5: every chunk chunk_text returns has more than 50 characters of trimmed
\* text, and windows that were dropped consume no chunk_id: the ids of the
\* chunks are consecutive and the counter equals the number of chunks.
C5_FloorAndIds ==
    /\ \A i \in 1 .. Len(chunks) :
          /\ Len(chunks[i].text) > MinChunk
          /\ chunks[i].chunk_id = i - 1
    /\ chunk_id = Len(chunks)

\* C5 witness: chunk_text has returned chunks, a window was dropped before
\* the last of them, and some window had exactly 50 trimmed characters.
C5_Witness ==
    /\ cpc = "done"
    /\ Len(chunks) >= 2
    /\ \E w \in taken : ~w.kept /\ w.start < chunks[Len(chunks)].char_start
    /\ \E w \in taken : Len(WindowText(text, w.start, w.end)) = MinChunk

\* C6: the chunks process_pdfs has collected carry the ids 0, 1, ... in list
\* order, without gap or repetition, and the offset is the number collected.
C6_ContiguousIds ==
    /\ \A i \in 1 .. Len(all_chunks) : all_chunks[i].chunk_id = i - 1
    /\ ppc \in {"files", "pages", "returned"} => chunk_id_offset = Len(all_chunks)

\* C6 witness: process_pdfs has returned chunks of two files, one of which
\* has a page that produced no chunk.
C6_Witness ==
    /\ ppc = "returned"
    /\ Len(all_chunks) >= 3
    /\ all_chunks[1].filename # all_chunks[Len(all_chunks)].filename
    /\ \E f \in 1 .. Len(data_dir.files) :
          \E j \in 1 .. Len(data_dir.files[f].texts) :
              data_dir.files[f].texts[j] = Fill(40)

\* C7: chunking the three-sentence text with chunk_size 30 and overlap 5
\* returns at least two chunks, each of about chunk_size characters at most
\* (35 allowed here).
C7_ScenarioChunks ==
    (cpc = "done" /\ text = ScenarioText /\ chunk_size = 30 /\ chunk_overlap = 5) =>
        /\ Len(chunks) >= 2
        /\ \A i \in 1 .. Len(chunks) : Len(chunks[i].text) <= 35

\* C8: for a text without sentence terminator that is longer than
\* chunk_size, chunk_text returns at least one chunk, none of them empty.
C8_HardCutChunks ==
    (cpc = "done" /\ NoTerminator(text) /\ Len(text) > chunk_size) =>
        /\ Len(chunks) >= 1
        /\ \A i \in 1 .. Len(chunks) : Len(chunks[i].text) > 0

\* C9: for the empty text and for every text of at most 50 characters,
\* chunk_text returns the empty list.
C9_ShortTextReturnsNothing ==
    (Len(text) <= MinChunk) => <>(cpc = "done" /\ chunks = << >>)

\* C10: a retrieve request handled before the service is ready is refused
\* with the not-ready error, and the handler has neither embedded the
\* query, nor searched the index, nor looked metadata up.
C10_RefusedBeforeReady ==
    (response # Null /\ ~srv.ready) =>
        (response = ServiceNotReady /\ calls = {})

\* C10 witness: a request was refused while startup had already loaded the
\* model and the index, but had not set ready.
C10_Witness ==
    /\ response = ServiceNotReady
    /\ calls = {}
    /\ ~srv.ready
    /\ srv.model # Null
    /\ srv.index # Null

\* C11: the server is never ready with an index, or a metadata record, whose
\* dimension differs from the configured embedding model's dimension.
C11_ReadyOnlyWithMatchingDimension ==
    srv.ready =>
        /\ srv.index.d = srv.model.dim
        /\ srv.metadata.embedding_dim = srv.model.dim

\* C12: in every ready state the metadata holds as many chunk records as the
\* index holds vectors.
C12_ReadyOnlyWithEqualCounts ==
    srv.ready => Len(srv.metadata.chunks) = Ntotal(srv.index)

\* The three files of an output directory.
DiskFiles(d) ==
    [index_file |-> d.index_file, metadata_file |-> d.metadata_file,
     summary_file |-> d.summary_file]

\* The artifact the running main writes when every step succeeds.
NewArtifact == Artifact(EmbeddingModel, all_chunks, chunk_size, chunk_overlap)

\* C13: when a run of main has failed (returned 1), at whatever stage, the
\* output directory holds no partial artifact: its three files are those it
\* held before the run (none, or the previous artifact), or the complete new
\* artifact.
C13_NoPartialArtifact ==
    (mpc = "exit" /\ exit_code = 1) =>
        DiskFiles(disk) \in {DiskFiles(NoOutputDir), OldArtifact, NewArtifact}

\* C14: a server that loads the output directory while a run of main writes
\* it ends up with the index and the metadata of one build: both of the
\* previous artifact, or both of the new one.
C14_ReaderSeesOneBuild ==
    (srv.index # Null /\ srv.metadata # Null) =>
        \/ \E old \in {OldArtifact, LongOldArtifact} :
              /\ srv.index = old.index_file
              /\ srv.metadata = old.metadata_file
        \/ /\ srv.index = NewArtifact.index_file
           /\ srv.metadata = NewArtifact.metadata_file

\* A retrieve request was answered with a result list.
Answered == response # Null /\ response.status = 200

\* The result list the hits of the answered request give when no threshold
\* is applied: one result for every hit that is not a -1 label, in the order
\* of the hits.
Unfiltered ==
    LET valid == SelectSeq(hits, LAMBDA h : h.label # -1)
    IN  [i \in 1 .. Len(valid) |->
           DocumentResult(Item(srv.metadata.chunks, valid[i].label), valid[i].distance)]

\* C15: retrieve with a threshold t returns exactly those results of the
\* same search without a threshold whose score is at least t, in the same
\* relative order: every returned score is at least t and no result with
\* score at least t is dropped.
C15_ThresholdKeepsScoresAtLeastT ==
    (Answered /\ request.threshold.given) =>
        response.results =
            SelectSeq(Unfiltered, LAMBDA r : r.score >= request.threshold.value)

\* C15 witness: a request with a threshold was answered with some results
\* while the threshold removed others.
C15_Witness ==
    /\ Answered
    /\ request.threshold.given
    /\ Len(response.results) >= 1
    /\ Len(response.results) < Len(Unfiltered)
    /\ \E i \in 1 .. Len(response.results) :
          response.results[i].score = request.threshold.value

\* C16: the results come in descending score order, and results of equal
\* score in ascending ordinal order.
C16_DescendingScoreThenOrdinal ==
    Answered =>
        \A i \in 1 .. Len(response.results) - 1 :
           \/ response.results[i].score > response.results[i + 1].score
           \/ /\ response.results[i].score = response.results[i + 1].score
              /\ response.results[i].chunk_id < response.results[i + 1].chunk_id

\* C17: retrieve returns at most min(k, N) results, N the number of vectors
\* in the index; no result comes from a -1 label of the search; num_results
\* is the length of the result list.
C17_AtMostMinKNResults ==
    Answered =>
        /\ Len(response.results) <= Min(request.k, Ntotal(srv.index))
        /\ \A i \in 1 .. Len(response.results) :
              \E j \in 1 .. Len(hits) :
                 /\ hits[j].label # -1
                 /\ response.results[i] =
                       DocumentResult(srv.metadata.chunks[hits[j].label + 1],
                                      hits[j].distance)
        /\ response.num_results = Len(response.results)

\* C17 witness: a request for more results than the index holds vectors was
\* answered with one result for every vector, the -1 labels skipped.
C17_Witness ==
    /\ Answered
    /\ request.k > Ntotal(srv.index)
    /\ \E j \in 1 .. Len(hits) : hits[j].label = -1
    /\ Len(response.results) = Ntotal(srv.index)
    /\ Len(response.results) >= 2

\* C18: after a run of main that succeeded (returned 0), the index file and
\* the metadata file both exist and describe the same corpus: the index
\* holds as many vectors as the metadata holds chunk records, which is the
\* num_chunks the metadata records.
C18_SuccessfulRunWritesOneCorpus ==
    (mpc = "exit" /\ exit_code = 0) =>
        /\ disk.exists
        /\ disk.index_file # Null
        /\ disk.metadata_file # Null
        /\ Ntotal(disk.index_file) = Len(disk.metadata_file.chunks)
        /\ Len(disk.metadata_file.chunks) = disk.metadata_file.num_chunks

\* C18 witness: a run of main over several chunks has returned 0.
C18_Witness ==
    /\ mpc = "exit"
    /\ exit_code = 0
    /\ Len(all_chunks) >= 2
    /\ Ntotal(disk.index_file) = Len(all_chunks)

\* The configurations the chunker is specified for.
ValidConfig(size, overlap) == size > 0 /\ 0 <= overlap /\ overlap < size

\* C19: a pipeline configured outside chunk_size > 0 and
\* 0 <= overlap < chunk_size is rejected before any chunking: no window is
\* computed and no chunk is produced.
C19_InvalidConfigRejected ==
    ~ValidConfig(chunk_size, chunk_overlap) =>
        /\ cpc # "slice"
        /\ taken = {}
        /\ chunks = << >>

\* The names of the files of data_dir whose extraction fails.
Unreadable ==
    { FileNames[j] : j \in { i \in 1 .. Len(data_dir.files) :
                               ~data_dir.files[i].readable } }

\* C20: a file whose text extraction fails contributes no chunk and the run
\* goes on: process_pdfs raises only for a missing or empty directory, and
\* when it returns, no chunk comes from a failed file, every page of every
\* other file that is longer than a window has its chunks, and the ordinals
\* of the chunks are 0, 1, 2, ... in order.
C20_FailedSourceSkipped ==
    /\ (ppc = "raised") => (~data_dir.exists \/ data_dir.files = << >>)
    /\ (ppc = "returned") =>
          /\ \A i \in 1 .. Len(all_chunks) : all_chunks[i].filename \notin Unreadable
          /\ \A j \in 1 .. Len(data_dir.files) :
                \A p \in 1 .. Len(data_dir.files[j].texts) :
                   (Len(data_dir.files[j].texts[p]) > chunk_size) =>
                      \E i \in 1 .. Len(all_chunks) :
                         /\ all_chunks[i].filename = FileNames[j]
                         /\ all_chunks[i].page_num = p
          /\ \A i \in 1 .. Len(all_chunks) : all_chunks[i].chunk_id = i - 1

\* C20 witness: process_pdfs has returned chunks of a later file although
\* the extraction of the first file failed.
C20_Witness ==
    /\ ppc = "returned"
    /\ Len(data_dir.files) >= 2
    /\ ~data_dir.files[1].readable
    /\ Len(all_chunks) >= 2
    /\ all_chunks[1].filename = FileNames[2]

\* The stages of main after process_pdfs.
LaterStages ==
    {"create_embeddings", "build_faiss_index", "mkdir", "write_index",
     "dump_metadata", "pickle_dump", "dump_summary", "json_dump"}

\* C21: a run of main whose files yield no chunk at all returns 1 without
\* embedding, without building an index and without writing to the output
\* directory; and main returns straight after process_pdfs only when
\* process_pdfs raised or gave no chunk, so a run with at least one chunk
\* does not fail for lack of chunks.
C21_EmptyCorpusFails ==
    /\ [](/\ (mpc \in LaterStages) => (all_chunks # << >>)
          /\ (mpc = "exit" /\ all_chunks = << >>) =>
                /\ exit_code = 1
                /\ embeddings = << >>
                /\ built_index = Null
                /\ disk \in OutputDirs)
    /\ [][(mpc = "process_pdfs" /\ mpc' = "exit") =>
             (ppc = "raised" \/ all_chunks = << >>)]_vars

\* C21 witness: process_pdfs returned no chunk from a directory that holds
\* files, and main has returned 1 leaving the earlier artifact as it was.
C21_Witness ==
    /\ mpc = "exit"
    /\ exit_code = 1
    /\ ppc = "returned"
    /\ all_chunks = << >>
    /\ data_dir.files # << >>
    /\ disk = OldOutputDir
    /\ embeddings = << >>

\* C22: no step of a retrieve call changes the loaded index or metadata,
\* and once startup has finished loading, no step at all changes them:
\* after any number of retrieve calls they are as they were loaded.
C22_RetrieveLeavesIndexAndMetadata ==
    [][(request' # request \/ spc = "ready") =>
          (srv'.index = srv.index /\ srv'.metadata = srv.metadata)]_vars

\* C22 witness: a ready server has answered a retrieve request with results
\* and still holds the index and the metadata of its directory.
C22_Witness ==
    /\ Answered
    /\ Len(response.results) >= 1
    /\ srv.ready
    /\ srv.index = disk.index_file
    /\ srv.metadata = disk.metadata_file

\* C23: every chunk chunk_text emits spans a non-empty range of offsets of
\* the page's text: 0 <= char_start < char_end <= len(text).
C23_SpanWithinText ==
    \A i \in 1 .. Len(chunks) :
       /\ 0 <= chunks[i].char_start
       /\ chunks[i].char_start < chunks[i].char_end
       /\ chunks[i].char_end <= Len(text)

\* C24: the text of every chunk chunk_text returns is at most chunk_size
\* characters long.
C24_ChunkTextAtMostChunkSize ==
    \A i \in 1 .. Len(chunks) : Len(chunks[i].text) <= chunk_size

\* C24 witness: chunk_text has returned a chunk of exactly chunk_size
\* characters and a chunk whose window a sentence boundary cut short.
C24_Witness ==
    /\ cpc = "done"
    /\ \E i \in 1 .. Len(chunks) : Len(chunks[i].text) = chunk_size
    /\ \E j \in 1 .. Len(chunks) :
          /\ chunks[j].char_end - chunks[j].char_start < chunk_size
          /\ chunks[j].char_end < Len(text)

\* The stage main is in: process_pdfs (text extraction and chunking),
\* embedding, indexing, persisting, returned.
StageOf(pc) ==
    CASE pc = "process_pdfs"      -> 1
      [] pc = "create_embeddings" -> 2
      [] pc = "build_faiss_index" -> 3
      [] pc \in {"mkdir", "write_index", "dump_metadata", "pickle_dump",
                  "dump_summary", "json_dump"} -> 4
      [] OTHER -> 5

\* What holds of every step of a run for the stages after chunking:
\* the stage never goes back, embedding starts only when process_pdfs has
\* returned, and persisting starts only with the index built.
LaterStagesInOrder ==
    /\ StageOf(mpc') >= StageOf(mpc)
    /\ (mpc' = "create_embeddings") => (ppc = "returned")
    /\ (mpc' = "build_faiss_index" /\ mpc # mpc') => (embeddings' # << >>)
    /\ (mpc' = "mkdir") => (built_index' # Null /\ mpc = "build_faiss_index")
    /\ (mpc # "process_pdfs") => UNCHANGED <<pdf_path, pages, all_chunks, chunks>>

\* C25 as stated: the stages of a run are strictly sequential, and no text
\* extraction happens once chunking has begun (once chunk_text has been
\* called, no further file is opened for extraction).
C25_NoExtractionAfterChunking ==
    [][/\ LaterStagesInOrder
       /\ (filename # None) => (pdf_path' = pdf_path)]_vars

\* C25 amended: embedding, indexing and persisting follow process_pdfs
\* strictly in that order and nothing is extracted or chunked after
\* embedding has begun; inside process_pdfs extraction and chunking
\* alternate file by file, a file being opened for extraction only when no
\* call of chunk_text is running and no page of the file before it is left.
C25_StagesInOrder ==
    [][/\ LaterStagesInOrder
       /\ (pdf_path' # pdf_path) =>
             (cpc \in {"idle"} /\ pages = << >> /\ mpc = "process_pdfs")]_vars

\* C25 witness: a run over two files that both gave chunks is persisting.
C25_Witness ==
    /\ mpc = "dump_summary"
    /\ built_index # Null
    /\ \E i, j \in 1 .. Len(all_chunks) :
          all_chunks[i].filename # all_chunks[j].filename

\* C26: the break test of chunk_text fires exactly when the right edge of
\* the window just taken is at or past the end of the text; hence, when
\* chunk_text has returned for a non-empty text and no window started at a
\* negative offset, the windows taken (kept or dropped) start at 0, each
\* window that ends before the end of the text is followed by the window
\* that starts overlap characters before its end, one window reaches the
\* end of the text, and every position lies in a window.
C26_BreakExactlyAtEndOfText ==
    /\ [][(cpc = "slice") => ((cpc' = "done") <=> (end >= Len(text)))]_vars
    /\ []((cpc = "done" /\ Len(text) > 0 /\ \A w \in taken : w.start >= 0) =>
            /\ \E w \in taken : w.start = 0
            /\ \E w \in taken : w.end >= Len(text)
            /\ \A w \in taken :
                  (w.end < Len(text)) =>
                     \E v \in taken : v.start = w.end - chunk_overlap
            /\ \A p \in 0 .. Len(text) - 1 :
                  \E w \in taken : w.start <= p /\ p < w.end)

\* C26 witness: chunk_text has returned after three or more windows, none
\* at a negative offset, one of them cut at a sentence boundary, the last
\* one reaching the end of the text and dropped by the floor.
C26_Witness ==
    /\ cpc = "done"
    /\ Cardinality(taken) >= 3
    /\ \A w \in taken : w.start >= 0
    /\ \E w \in taken : w.end < Len(text) /\ w.end - w.start < chunk_size
    /\ \E w \in taken : ~w.kept /\ w.end >= Len(text)

\* C27: with chunk_size - overlap >= 100 and overlap >= 0, chunk_text
\* returns for every text.
C27_WideConfigReturns ==
    (chunk_size - chunk_overlap >= Lookback /\ chunk_overlap >= 0) => <>(cpc = "done")

\* C27 witness: chunk_text has returned although a sentence boundary at the
\* far end of the lookback cut a window so short that start advanced by one
\* character only.
C27_Witness ==
    /\ cpc = "done"
    /\ chunk_size - chunk_overlap >= Lookback
    /\ \E w \in taken : w.end - chunk_overlap = w.start + 1

\* C28: whenever state.ready is true, the embedding model, the index and
\* the metadata are loaded (none is None); ready becomes true only as the
\* last step of a startup whose loads all succeeded; and once true it stays
\* true.
C28_ReadyMeansLoaded ==
    /\ [](srv.ready =>
            /\ srv.model # Null
            /\ srv.index # Null
            /\ srv.metadata # Null
            /\ spc = "ready")
    /\ [][(~srv.ready /\ srv'.ready) => (spc = "metadata_loaded")]_vars
    /\ [][srv.ready => srv'.ready]_vars

\* C28 witness: a server that became ready without a Whisper model is
\* handling a retrieve request, everything else loaded.
C28_Witness ==
    /\ srv.ready
    /\ srv.whisper_model = Null
    /\ srv.model = EmbeddingModel
    /\ srv.index = disk.index_file
    /\ srv.metadata = disk.metadata_file
    /\ request # Null

====
